---- MODULE Spec2Model ----
(***************************************************************************)
(* backup-brogue: the reconciliation engine of src/src/backup.rs.          *)
(*                                                                         *)
(* Two directories (save_dir, backup_dir) hold entries; App keeps the last *)
(* scan (state.saves) and a delete_state; update_state re-scans and        *)
(* on_tick runs reconcile, which either removes the selected record's      *)
(* files or copies every one-sided record to the other side.               *)
(***************************************************************************)
EXTENDS Integers, Sequences, FiniteSets, TLC

\* ---------------------------------------------------------------- bounds
\* modification times are 0..MaxTime
MaxTime == 1
\* the external writer (the game) changes the directories at most this often
MaxExternal == 1
\* the user picks a position 0..MaxIndex
MaxIndex == 1

Times == 0..MaxTime

\* ------------------------------------------------------- names and paths
Saved == <<"S", "a", "v", "e", "d">>
DotBroguesave == <<".", "b", "r", "o", "g", "u", "e", "s", "a", "v", "e">>

\* The file names of the model, and the characters of each.
Names ==
  {"Saved1.broguesave", "Saved2.broguesave", "Saved3.broguesave",
   "Saved4.txt", "Other5.broguesave"}

Chars(n) ==
  CASE n = "Saved1.broguesave" -> Saved \o <<"1">> \o DotBroguesave
    [] n = "Saved2.broguesave" -> Saved \o <<"2">> \o DotBroguesave
    [] n = "Saved3.broguesave" -> Saved \o <<"3">> \o DotBroguesave
    [] n = "Saved4.txt"        -> Saved \o <<"4", ".", "t", "x", "t">>
    [] n = "Other5.broguesave" -> <<"O", "t", "h", "e", "r", "5">> \o DotBroguesave

save_dir == "save_dir"
backup_dir == "backup_dir"
Dirs == {save_dir, backup_dir}

join(dir, name) == [dir |-> dir, name |-> name]
file_name(path) == path.name
Paths == {join(d, n) : d \in Dirs, n \in Names}
NoPath == [dir |-> "none", name |-> "none"]

\* ------------------------------------------------------------ filesystem
Absent == [kind |-> "absent", content |-> "none", mtime |-> 0]
Dir == [kind |-> "dir", content |-> "none", mtime |-> 0]
File(c, t) == [kind |-> "file", content |-> c, mtime |-> t]

exists(f, path) == f[path].kind # "absent"
is_dir(f, path) == f[path].kind = "dir"

\* ------------------------------------------------------------- the state
VARIABLES
  fs,            \* the two directories: path -> entry
  state,         \* App.state.saves, the last scan
  delete_state,  \* App.delete_state
  pc,            \* "running", or "panicked" once an unwrap has failed
  extLeft,       \* external changes still allowed
  hist           \* the last operation and what it did (history, not program state)

vars == <<fs, state, delete_state, pc, extLeft, hist>>

NotDeleting == [tag |-> "NotDeleting", idx |-> 0]
AwaitingIndex == [tag |-> "AwaitingIndex", idx |-> 0]
Delete(i) == [tag |-> "Delete", idx |-> i]

OriginalFileOnly(x) == [tag |-> "OriginalFileOnly", x |-> x, y |-> NoPath]
BackupFileOnly(x) == [tag |-> "BackupFileOnly", x |-> x, y |-> NoPath]
Both(x, y) == [tag |-> "Both", x |-> x, y |-> y]

\* ------------------------------------------------------------- the scan
key(path) == file_name(path)

Save_key(s) == key(s.x)

sort_by(f, path) == f[path].mtime

Max(a, b) == IF a >= b THEN a ELSE b

\* Save::sort_by taking the origin's time alone for a Both record
Save_sort_by_origin(f, s) == sort_by(f, s.x)

Save_sort_by(f, s) ==
  IF s.tag = "Both" THEN Max(sort_by(f, s.x), sort_by(f, s.y)) ELSE sort_by(f, s.x)

LastDot(cs) ==
  LET dots == {i \in 1..Len(cs) : cs[i] = "."}
  IN IF dots = {} THEN 0 ELSE CHOOSE i \in dots : \A j \in dots : j <= i

\* Path::extension().unwrap_or_default(): the part after the last '.', empty
\* when there is no '.' or the only '.' is the first character.
extension(path) ==
  LET cs == Chars(file_name(path))
      d == LastDot(cs)
  IN IF d <= 1 THEN <<>> ELSE SubSeq(cs, d + 1, Len(cs))

starts_with(cs, prefix) ==
  Len(cs) >= Len(prefix) /\ SubSeq(cs, 1, Len(prefix)) = prefix

\* is_brogue_save without the starts_with("Saved") test
is_brogue_save_any_prefix(f, path) ==
  /\ ~is_dir(f, path)
  /\ extension(path) = SubSeq(DotBroguesave, 2, Len(DotBroguesave))

is_brogue_save(f, path) ==
  /\ ~is_dir(f, path)
  /\ extension(path) = SubSeq(DotBroguesave, 2, Len(DotBroguesave))
  /\ starts_with(Chars(file_name(path)), Saved)

files(f, dir) ==
  {p \in Paths : p.dir = dir /\ exists(f, p) /\ is_brogue_save(f, p)}

\* the map after the first loop of get_state
map_saves(save_files) ==
  [k \in {key(p) : p \in save_files} |->
     OriginalFileOnly(CHOOSE p \in save_files : key(p) = k)]

\* the second loop of get_state inserting without the and_modify upgrade
map_backups_no_upgrade(map, backup_files) ==
  [k \in DOMAIN map \cup {key(p) : p \in backup_files} |->
     IF k \in DOMAIN map THEN map[k]
     ELSE BackupFileOnly(CHOOSE p \in backup_files : key(p) = k)]

\* the map after the second loop of get_state
map_backups(map, backup_files) ==
  [k \in DOMAIN map \cup {key(p) : p \in backup_files} |->
     IF \E p \in backup_files : key(p) = k
     THEN LET backup_file == CHOOSE p \in backup_files : key(p) = k
          IN IF k \in DOMAIN map
             THEN IF map[k].tag = "OriginalFileOnly"
                  THEN Both(map[k].x, backup_file)
                  ELSE map[k]
             ELSE BackupFileOnly(backup_file)
     ELSE map[k]]

\* HashMap::into_values gives the records in an arbitrary order and
\* sort_by_key is a stable sort: every ordering ascending in sort_by.
sorted_orders(f, values) ==
  LET n == Cardinality(values)
  IN {s \in [1..n -> values] :
        /\ \A i, j \in DOMAIN s : i # j => s[i] # s[j]
        /\ \A i, j \in DOMAIN s : i < j => Save_sort_by(f, s[i]) <= Save_sort_by(f, s[j])}

\* map.into_values(): the records of the two listings, each directory
\* being read once
listed(f) ==
  LET into_values(map) == {map[k] : k \in DOMAIN map}
  IN UNION {into_values(map_backups(map_saves(save_files), backup_files)) :
              save_files \in {files(f, save_dir)}, backup_files \in {files(f, backup_dir)}}

\* the set of results get_state can return with Ok
get_state(f) == sorted_orders(f, listed(f))

\* ------------------------------------------------- filesystem primitives
\* What a call did: the filesystem after it, Ok or Err, the copies made, the
\* paths removed, the copies std::fs::copy was called for, the calls that failed.
Outcome(f, ok, copies, removed) ==
  [fs |-> f, ok |-> ok, copies |-> copies, removed |-> removed,
   tried |-> copies, failed |-> {}]

CopyFailure(f, from, to) ==
  [fs |-> f, ok |-> FALSE, copies |-> {}, removed |-> {},
   tried |-> {<<from, to>>}, failed |-> {<<"copy", from, to>>}]

RemoveFailure(f, path) ==
  [fs |-> f, ok |-> FALSE, copies |-> {}, removed |-> {},
   tried |-> {}, failed |-> {<<"remove", path, path>>}]

\* The time of a write made while the program runs: not before any other.
Now == MaxTime

\* std::fs::copy(from, to), called with `to` absent: it can succeed (the new
\* file has the source's content; its modification time is the source's where
\* the platform clones the file, the time of the copy elsewhere), or fail,
\* leaving nothing or a truncated file. A directory cannot be copied.
fs_copy(f, from, to) ==
  LET failed == {CopyFailure(f, from, to),
                 CopyFailure([f EXCEPT ![to] = File("partial", Now)], from, to)}
  IN IF f[from].kind = "file"
     THEN {Outcome([f EXCEPT ![to] = File(f[from].content, t)], TRUE, {<<from, to>>}, {}) :
             t \in {f[from].mtime, Now}} \cup failed
     ELSE {CopyFailure(f, from, to)}

\* std::fs::remove_file(path), called with `path` present: it can succeed or
\* fail; a directory cannot be removed by it.
remove_file(f, path) ==
  IF f[path].kind = "file"
  THEN {Outcome([f EXCEPT ![path] = Absent], TRUE, {}, {path}), RemoveFailure(f, path)}
  ELSE {RemoveFailure(f, path)}

\* cp without the `!from.exists()` test
cp_unchecked_source(f, from, to) ==
  IF ~exists(f, to) THEN fs_copy(f, from, to)
  ELSE {Outcome(f, TRUE, {}, {})}

\* cp with the `!to.exists()` test inverted
cp_inverted(f, from, to) ==
  IF ~exists(f, from) THEN {Outcome(f, TRUE, {}, {})}
  ELSE IF exists(f, to) THEN fs_copy(f, from, to)
  ELSE {Outcome(f, TRUE, {}, {})}

\* cp without the `!to.exists()` test
cp_clobbers(f, from, to) ==
  IF ~exists(f, from) THEN {Outcome(f, TRUE, {}, {})}
  ELSE fs_copy(f, from, to)

cp(f, from, to) ==
  IF ~exists(f, from) THEN {Outcome(f, TRUE, {}, {})}
  ELSE IF ~exists(f, to) THEN fs_copy(f, from, to)
  ELSE {Outcome(f, TRUE, {}, {})}

\* rm without the `path.exists()` test
rm_unchecked(f, path) == remove_file(f, path)

rm(f, path) ==
  IF exists(f, path) THEN remove_file(f, path)
  ELSE {Outcome(f, TRUE, {}, {})}

\* ------------------------------------------------------------ reconcile
\* `first` then `second`, the second only when the first returned Ok (the ? operator)
AndThen(o, second) ==
  IF o.ok
  THEN {[fs |-> q.fs, ok |-> q.ok,
         copies |-> o.copies \cup q.copies, removed |-> o.removed \cup q.removed,
         tried |-> o.tried \cup q.tried, failed |-> o.failed \cup q.failed] : q \in second}
  ELSE {o}

\* the deletion branch removing the origin of a Both record before the backup
delete_save_origin_first(f, save) ==
  CASE save.tag = "OriginalFileOnly" -> rm(f, save.x)
    [] save.tag = "BackupFileOnly" -> rm(f, save.x)
    [] save.tag = "Both" ->
         UNION {AndThen(o, rm(o.fs, save.y)) : o \in rm(f, save.x)}

\* the deletion branch removing only the backup of a Both record
delete_save_backup_only(f, save) ==
  CASE save.tag = "OriginalFileOnly" -> rm(f, save.x)
    [] save.tag = "BackupFileOnly" -> rm(f, save.x)
    [] save.tag = "Both" -> rm(f, save.y)

\* the match of the deletion branch
delete_save(f, save) ==
  CASE save.tag = "OriginalFileOnly" -> rm(f, save.x)
    [] save.tag = "BackupFileOnly" -> rm(f, save.x)
    [] save.tag = "Both" ->
         UNION {AndThen(o, rm(o.fs, save.x)) : o \in rm(f, save.y)}

\* the synchronization loop without the BackupFileOnly arm
sync_save_origin_only(f, save) ==
  CASE save.tag = "OriginalFileOnly" ->
         cp(f, save.x, join(backup_dir, file_name(save.x)))
    [] OTHER -> {Outcome(f, TRUE, {}, {})}

\* the match of the synchronization loop, for one record
sync_save(f, save) ==
  CASE save.tag = "OriginalFileOnly" ->
         cp(f, save.x, join(backup_dir, file_name(save.x)))
    [] save.tag = "BackupFileOnly" ->
         cp(f, save.x, join(save_dir, file_name(save.x)))
    [] save.tag = "Both" -> {Outcome(f, TRUE, {}, {})}

\* the for loop over state.saves from position i on; it ends at the first Err
RECURSIVE sync_loop(_, _, _)
sync_loop(f, saves, i) ==
  IF i > Len(saves) THEN {Outcome(f, TRUE, {}, {})}
  ELSE UNION {AndThen(o, sync_loop(o.fs, saves, i + 1)) : o \in sync_save(f, saves[i])}

Result(o, ds, branch) ==
  [fs |-> o.fs, ok |-> o.ok, copies |-> o.copies, removed |-> o.removed,
   tried |-> o.tried, failed |-> o.failed, delete_state |-> ds, branch |-> branch]

\* Vec::get(idx) is Some
in_range(saves, ds) == ds.tag = "Delete" /\ ds.idx < Len(saves)

\* reconcile assigning NotDeleting on every path
reconcile_always_resets(f, saves, ds) ==
  IF in_range(saves, ds)
  THEN {Result(o, IF o.ok THEN NotDeleting ELSE ds, "delete") :
          o \in delete_save(f, saves[ds.idx + 1])}
  ELSE {Result(o, NotDeleting, "sync") : o \in sync_loop(f, saves, 1)}

\* reconcile without the `return Ok(())` that ends the deletion branch
reconcile_falls_through(f, saves, ds) ==
  IF in_range(saves, ds)
  THEN UNION {IF o.ok
              THEN {Result(q, NotDeleting, "delete") :
                      q \in AndThen(o, sync_loop(o.fs, saves, 1))}
              ELSE {Result(o, ds, "delete")} :
                o \in delete_save(f, saves[ds.idx + 1])}
  ELSE {Result(o, ds, "sync") : o \in sync_loop(f, saves, 1)}

reconcile(f, saves, ds) ==
  IF in_range(saves, ds)
  THEN {Result(o, IF o.ok THEN NotDeleting ELSE ds, "delete") :
          o \in delete_save(f, saves[ds.idx + 1])}
  ELSE {Result(o, ds, "sync") : o \in sync_loop(f, saves, 1)}

\* -------------------------------------------------------------- history
\* The last operation: which it was, the branch reconcile took, Ok or Err, the
\* filesystem and delete_state before it, what the call did (r), whether it
\* repeats the operation before it, and for a repeated scan the state before.
Hist(op, branch, ok, f0, ds0, r, again, s0) ==
  [op |-> op, branch |-> branch, ok |-> ok, fs0 |-> f0, ds0 |-> ds0,
   copies |-> r.copies, removed |-> r.removed, tried |-> r.tried, failed |-> r.failed,
   again |-> again, state0 |-> s0]

Plain(op, ok, f, ds) ==
  Hist(op, "none", ok, f, ds, Outcome(f, ok, {}, {}), FALSE, <<>>)

\* -------------------------------------------------------------- actions
\* App::on_tick: reconcile().unwrap()
Tick(r) ==
  /\ pc = "running"
  /\ fs' = r.fs
  /\ delete_state' = r.delete_state
  /\ pc' = IF r.ok THEN "running" ELSE "panicked"
  /\ hist' = Hist("tick", r.branch, r.ok, fs, delete_state, r,
                  r.branch = "sync" /\ hist.op = "tick" /\ hist.branch = "sync" /\ hist.ok,
                  <<>>)
  /\ UNCHANGED <<state, extLeft>>

OnTick == \E r \in reconcile(fs, state, delete_state) : Tick(r)

\* App::update_state, get_state returning Ok
UpdateState ==
  /\ pc = "running"
  /\ \E s \in get_state(fs) : state' = s
  /\ hist' = IF hist.op = "scan" /\ hist.ok
             THEN [Plain("scan", TRUE, fs, delete_state) EXCEPT !.again = TRUE, !.state0 = state]
             ELSE Plain("scan", TRUE, fs, delete_state)
  /\ UNCHANGED <<fs, delete_state, pc, extLeft>>

\* App::update_state, read_dir failing: the ? returns before the assignment
UpdateStateErr ==
  /\ pc = "running"
  /\ hist' = Plain("scan", FALSE, fs, delete_state)
  /\ UNCHANGED <<fs, state, delete_state, pc, extLeft>>

\* The host loop's key handling (not in src/): d, a letter, escape.
RequestDelete ==
  /\ pc = "running"
  /\ delete_state = NotDeleting
  /\ delete_state' = AwaitingIndex
  /\ hist' = Plain("other", TRUE, fs, delete_state')
  /\ UNCHANGED <<fs, state, pc, extLeft>>

PickIndex ==
  /\ pc = "running"
  /\ delete_state = AwaitingIndex
  /\ \E i \in 0..MaxIndex : delete_state' = Delete(i)
  /\ hist' = Plain("other", TRUE, fs, delete_state')
  /\ UNCHANGED <<fs, state, pc, extLeft>>

CancelDelete ==
  /\ pc = "running"
  /\ delete_state = AwaitingIndex
  /\ delete_state' = NotDeleting
  /\ hist' = Plain("other", TRUE, fs, delete_state')
  /\ UNCHANGED <<fs, state, pc, extLeft>>

\* The game writing and deleting its save files while the program runs.
LiveNames == {"Saved1.broguesave", "Saved2.broguesave"}
LivePaths == {p \in Paths : p.name \in LiveNames}

SideContent(dir) == IF dir = save_dir THEN "origin" ELSE "backup"

External(p, e) ==
  /\ pc = "running"
  /\ extLeft > 0
  /\ extLeft' = extLeft - 1
  /\ fs' = [fs EXCEPT ![p] = e]
  /\ hist' = Plain("other", TRUE, fs', delete_state)
  /\ UNCHANGED <<state, delete_state, pc>>

ExternalCreate ==
  \E p \in LivePaths : ~exists(fs, p) /\ External(p, File(SideContent(p.dir), Now))

ExternalRemove ==
  \E p \in LivePaths : exists(fs, p) /\ External(p, Absent)

\* App::update_state while the game removes a listed file after the two
\* listings and before the sort. sort_by_key compares, and so calls sort_by on,
\* every record when there are two or more: metadata().unwrap() panics on the
\* missing file. A single record is never compared and is returned as listed.
UpdateStateRace ==
  /\ pc = "running"
  /\ extLeft > 0
  /\ extLeft' = extLeft - 1
  /\ \E p \in LivePaths :
       /\ fs[p].kind = "file"
       /\ fs' = [fs EXCEPT ![p] = Absent]
  /\ IF Cardinality(listed(fs)) >= 2
     THEN /\ pc' = "panicked"
          /\ state' = state
          /\ hist' = Plain("scan_race", FALSE, fs', delete_state)
     ELSE /\ pc' = pc
          /\ state' = <<CHOOSE r \in listed(fs) : TRUE>>
          /\ hist' = Plain("scan_race", TRUE, fs', delete_state)
  /\ UNCHANGED delete_state

\* ---------------------------------------------------------------- Init
\* Entries that are there throughout and never qualify: a directory named like
\* a save, a file with another extension, a file with another prefix.
Furniture(p) ==
  CASE p = join(save_dir, "Saved3.broguesave") -> Dir
    [] p = join(save_dir, "Saved4.txt") -> File("origin", 0)
    [] p = join(backup_dir, "Other5.broguesave") -> File("backup", 0)
    [] OTHER -> Absent

\* Before the program starts each live save is on neither side, one or both.
InitFs ==
  {[p \in Paths |-> IF p \in LivePaths THEN live[p] ELSE Furniture(p)] :
     live \in {l \in [LivePaths -> {Absent, File("origin", 0), File("backup", 0)}] :
                \A p \in LivePaths : l[p].content \in {"none", SideContent(p.dir)}}}

InitApp ==
  /\ state = <<>>
  /\ delete_state = NotDeleting
  /\ pc = "running"
  /\ hist = Plain("other", TRUE, fs, NotDeleting)

Init ==
  /\ fs \in InitFs
  /\ extLeft = MaxExternal
  /\ InitApp

Next ==
  \/ OnTick
  \/ UpdateState
  \/ UpdateStateErr
  \/ UpdateStateRace
  \/ RequestDelete
  \/ PickIndex
  \/ CancelDelete
  \/ ExternalCreate
  \/ ExternalRemove

Spec == Init /\ [][Next]_vars

\* ------------------------------------------------- the scan on its own
\* Every save name on either side absent, a directory or a file of any time;
\* the other names there or not.
ScanNames == {"Saved1.broguesave", "Saved2.broguesave", "Saved3.broguesave"}

ScanEntries(p) ==
  {Absent} \cup {File(SideContent(p.dir), t) : t \in Times}
    \cup (IF p.name = "Saved3.broguesave" THEN {Dir} ELSE {})

ScanFs ==
  {[p \in Paths |->
      IF p.name \in ScanNames THEN q[p]
      ELSE IF p.name \in others THEN File(SideContent(p.dir), 0) ELSE Absent] :
     q \in {r \in [{p \in Paths : p.name \in ScanNames} ->
                     {Absent, Dir} \cup {File(c, t) : c \in {"origin", "backup"}, t \in Times}] :
               \A p \in DOMAIN r : r[p] \in ScanEntries(p)},
     others \in SUBSET (Names \ ScanNames)}

InitScan ==
  /\ fs \in ScanFs
  /\ extLeft = 0
  /\ InitApp

NextScan ==
  \/ UpdateState
  \/ UpdateStateErr

SpecScan == InitScan /\ [][NextScan]_vars

\* --------------------------------------------------------------- claims
\* The names that qualify, by reading them: extension broguesave, prefix Saved.
QualifyingNames == {"Saved1.broguesave", "Saved2.broguesave", "Saved3.broguesave"}

Qualifies(f, p) == p.name \in QualifyingNames /\ f[p].kind = "file"

Origin(n) == join(save_dir, n)
Backup(n) == join(backup_dir, n)

OnlyOrigin(f) == {n \in Names : Qualifies(f, Origin(n)) /\ ~Qualifies(f, Backup(n))}
OnlyBackup(f) == {n \in Names : ~Qualifies(f, Origin(n)) /\ Qualifies(f, Backup(n))}
Common(f) == {n \in Names : Qualifies(f, Origin(n)) /\ Qualifies(f, Backup(n))}

Records(saves) == {saves[i] : i \in 1..Len(saves)}

\* the other side's path for a one-sided record
Counterpart(s) ==
  join(IF s.x.dir = save_dir THEN backup_dir ELSE save_dir, file_name(s.x))

Ticked == hist.op = "tick"
Selected == state[hist.ds0.idx + 1]
DeleteTick == Ticked /\ hist.branch = "delete"
SyncTick == Ticked /\ hist.branch = "sync"

\* C1: a scan of an origin directory holding the qualifying names O + C and a
\* backup directory holding B + C returns exactly one record per name:
\* OriginalFileOnly for O, BackupFileOnly for B, Both for C, and nothing else.
ScanClassifies ==
  (hist.op = "scan" /\ hist.ok) =>
    /\ Records(state) =
         {OriginalFileOnly(Origin(n)) : n \in OnlyOrigin(fs)}
           \cup {BackupFileOnly(Backup(n)) : n \in OnlyBackup(fs)}
           \cup {Both(Origin(n), Backup(n)) : n \in Common(fs)}
    /\ \A i, j \in 1..Len(state) : Save_key(state[i]) = Save_key(state[j]) => i = j

ScanClassifiesWitness ==
  /\ hist.op = "scan" /\ hist.ok
  /\ OnlyOrigin(fs) # {} /\ OnlyBackup(fs) # {} /\ Common(fs) # {}
  /\ Len(state) = 3
  /\ \E p \in Paths : exists(fs, p) /\ ~Qualifies(fs, p)

\* C2: the synchronization branch leaves every entry that was there before the
\* tick as it was, and copies only to a destination that was absent, also when
\* the destination appeared after the scan.
NoClobber ==
  SyncTick =>
    /\ \A p \in Paths : exists(hist.fs0, p) => fs[p] = hist.fs0[p]
    /\ \A c \in hist.copies : ~exists(hist.fs0, c[2])

NoClobberWitness ==
  /\ SyncTick /\ hist.ok
  /\ \E s \in Records(state) :
       /\ s.tag # "Both"
       /\ hist.fs0[s.x].kind = "file"
       /\ hist.fs0[Counterpart(s)].kind = "file"
       /\ hist.fs0[Counterpart(s)].content # hist.fs0[s.x].content
       /\ fs[Counterpart(s)] = hist.fs0[Counterpart(s)]

\* C3: from origin-only names O and backup-only names B, a scan and then one
\* synchronization tick without I/O failure leave both directories holding
\* exactly O + B, and the next scan gives Both for every name.
ConvergesInOnePass ==
  ( /\ SyncTick /\ hist.ok
    /\ state \in get_state(hist.fs0)
    /\ \A s \in Records(state) : s.tag # "Both" /\ ~exists(hist.fs0, Counterpart(s)) )
  =>
    LET names == {Save_key(s) : s \in Records(state)}
    IN /\ {n \in Names : Qualifies(fs, Origin(n))} = names
       /\ {n \in Names : Qualifies(fs, Backup(n))} = names
       /\ \A next \in get_state(fs) :
            Records(next) = {Both(Origin(n), Backup(n)) : n \in names}

ConvergesWitness ==
  /\ SyncTick /\ hist.ok
  /\ state \in get_state(hist.fs0)
  /\ \A s \in Records(state) : s.tag # "Both" /\ ~exists(hist.fs0, Counterpart(s))
  /\ \E s \in Records(state) : s.tag = "OriginalFileOnly"
  /\ \E s \in Records(state) : s.tag = "BackupFileOnly"
  /\ Cardinality(hist.copies) = 2

\* C4: a synchronization run right after a synchronization run that returned
\* Ok copies nothing and leaves the directories as the first run left them.
SyncIdempotent ==
  (Ticked /\ hist.again) => (hist.ok /\ hist.copies = {} /\ fs = hist.fs0)

SyncIdempotentWitness ==
  /\ Ticked /\ hist.again
  /\ extLeft = MaxExternal
  /\ \E s \in Records(state) :
       /\ s.tag # "Both"
       /\ fs[s.x].kind = "file"
       /\ fs[Counterpart(s)].kind = "file"
       /\ fs[Counterpart(s)].content = fs[s.x].content

\* C5: a delete tick on a Both(o, b) record that returns Ok leaves neither o
\* nor b, and no later scan holds a record of that name.
DeleteRemovesBoth ==
  (DeleteTick /\ hist.ok /\ Selected.tag = "Both") =>
    /\ ~exists(fs, Selected.x)
    /\ ~exists(fs, Selected.y)
    /\ \A next \in get_state(fs) :
         \A s \in Records(next) : Save_key(s) # Save_key(Selected)

DeleteRemovesBothWitness ==
  /\ DeleteTick /\ hist.ok /\ Selected.tag = "Both"
  /\ hist.removed = {Selected.x, Selected.y}
  /\ Len(state) = 2

\* C6: a delete tick on an OriginalFileOnly or BackupFileOnly record touches
\* that record's path alone, and when the file is already gone it returns Ok
\* and changes nothing on disk.
DeleteOneSided ==
  (DeleteTick /\ Selected.tag # "Both") =>
    /\ \A p \in Paths : p # Selected.x => fs[p] = hist.fs0[p]
    /\ hist.removed \subseteq {Selected.x}
    /\ hist.ok => ~exists(fs, Selected.x)
    /\ ~exists(hist.fs0, Selected.x) => (hist.ok /\ fs = hist.fs0)

DeleteTwiceWitness ==
  /\ DeleteTick /\ hist.ok /\ Selected.tag # "Both"
  /\ ~exists(hist.fs0, Selected.x)
  /\ extLeft = MaxExternal
  /\ exists(fs, Counterpart(Selected)) \/ Len(state) = 2

\* C7 (as claimed): after a tick entered with Delete(i), i in range,
\* delete_state is NotDeleting, whether or not the removal succeeded.
DeleteAlwaysResets ==
  (Ticked /\ in_range(state, hist.ds0)) => delete_state = NotDeleting

\* C8 (as claimed): a tick entered with Delete(i), i out of range, returns Ok,
\* removes nothing and leaves delete_state as it was.
OutOfRangeIsNoError ==
  (Ticked /\ hist.ds0.tag = "Delete" /\ ~in_range(state, hist.ds0)) =>
    /\ hist.ok
    /\ hist.removed = {}
    /\ delete_state = hist.ds0

\* C9: no tick both removes and copies; a tick that takes the deletion branch
\* copies nothing and changes no path but the selected record's.
DeleteExcludesSync ==
  Ticked =>
    /\ hist.copies = {} \/ hist.removed = {}
    /\ hist.branch = "delete" =>
         /\ hist.copies = {}
         /\ \A p \in Paths : p \notin {Selected.x, Selected.y} => fs[p] = hist.fs0[p]
    /\ hist.branch = "sync" => hist.removed = {}

DeleteExcludesSyncWitness ==
  /\ DeleteTick /\ hist.ok /\ hist.removed # {}
  /\ \E s \in Records(state) :
       /\ s # Selected /\ s.tag # "Both"
       /\ fs[s.x].kind = "file"
       /\ ~exists(fs, Counterpart(s))

\* C10: an entry that is a directory, or whose name lacks the extension
\* broguesave or the prefix Saved, is in no record of a scan, and no tick
\* copies, removes or changes it.
FilterHolds ==
  /\ (hist.op = "scan" /\ hist.ok) =>
       \A s \in Records(state) :
         /\ Qualifies(fs, s.x)
         /\ s.tag = "Both" => Qualifies(fs, s.y)
  /\ Ticked =>
       /\ \A c \in hist.copies : Qualifies(hist.fs0, c[1])
       /\ \A p \in hist.removed : Qualifies(hist.fs0, p)
       /\ \A p \in Paths :
            (exists(hist.fs0, p) /\ ~Qualifies(hist.fs0, p)) => fs[p] = hist.fs0[p]
       /\ \A p \in Paths : p.name \notin QualifyingNames => fs[p] = hist.fs0[p]

FilterWitness ==
  /\ Ticked /\ hist.ok /\ hist.copies # {}
  /\ state \in get_state(hist.fs0)
  /\ \E p \in Paths : is_dir(hist.fs0, p) /\ p.name \in QualifyingNames
  /\ \E p \in Paths :
       /\ hist.fs0[p].kind = "file"
       /\ extension(p) # SubSeq(DotBroguesave, 2, Len(DotBroguesave))
  /\ \E p \in Paths :
       /\ hist.fs0[p].kind = "file"
       /\ ~starts_with(Chars(file_name(p)), Saved)

\* the recency of a record: its file's time, for Both the later of the two
Recency(f, s) ==
  IF s.tag = "Both"
  THEN (IF f[s.x].mtime >= f[s.y].mtime THEN f[s.x].mtime ELSE f[s.y].mtime)
  ELSE f[s.x].mtime

\* C11: a scan's result is ascending in recency: a record of strictly later
\* recency is at a higher index.
ScanSorted ==
  (hist.op = "scan" /\ hist.ok) =>
    \A i, j \in 1..Len(state) :
      Recency(fs, state[i]) < Recency(fs, state[j]) => i < j

ScanSortedWitness ==
  /\ hist.op = "scan" /\ hist.ok
  /\ Len(state) = 3
  /\ state[3].tag = "Both"
  /\ fs[state[3].x].mtime < fs[state[3].y].mtime
  /\ Recency(fs, state[1]) < Recency(fs, state[3])
  /\ fs[state[3].x].mtime < Recency(fs, state[2])

\* C12 (as claimed): a tick entered with Delete(i), for any i, copies nothing.
DeletePendingNeverCopies ==
  (Ticked /\ hist.ds0.tag = "Delete") => hist.copies = {}

\* a one-sided record whose copy is due: its file is there, the other side is not
NeedsCopy(f, s) == s.tag # "Both" /\ exists(f, s.x) /\ ~exists(f, Counterpart(s))

\* C13 (as claimed): when a copy fails in the synchronization branch, the copy
\* of every other record that needs one is still attempted in that tick.
SyncIsBestEffort ==
  (SyncTick /\ ~hist.ok) =>
    \A s \in Records(state) :
      NeedsCopy(hist.fs0, s) => <<s.x, Counterpart(s)>> \in hist.tried

\* C14 (as claimed): a file removed between the listing and the reading of its
\* modification time does not crash the process.
ScanRaceSurvives ==
  hist.op = "scan_race" => pc = "running"

\* C15: deleting a Both(o, b) record never leaves o removed by the tick while
\* b is still there, whichever removal fails.
BackupRemovedFirst ==
  (DeleteTick /\ Selected.tag = "Both") =>
    (Selected.x \in hist.removed => ~exists(fs, Selected.y))

BackupRemovedFirstWitness ==
  /\ DeleteTick /\ Selected.tag = "Both" /\ ~hist.ok
  /\ hist.removed = {Selected.y}
  /\ exists(fs, Selected.x)

\* C16: on a state made stale by the game creating or removing save files, a
\* tick calls std::fs::copy only for a source that is there and a destination
\* that is not, and std::fs::remove_file only for a path that is there; it
\* returns Ok unless such a call itself fails.
RacesTolerated ==
  Ticked =>
    /\ \A c \in hist.tried : exists(hist.fs0, c[1]) /\ ~exists(hist.fs0, c[2])
    /\ \A c \in hist.failed : exists(hist.fs0, c[2])
    /\ \A p \in hist.removed : exists(hist.fs0, p)
    /\ hist.failed = {} => hist.ok

RacesToleratedWitness ==
  /\ Ticked /\ hist.ok
  /\ extLeft < MaxExternal
  /\ \E s \in Records(state) :
       /\ s.tag # "Both"
       /\ ~exists(hist.fs0, s.x)
       /\ ~exists(fs, Counterpart(s))
  /\ \E s \in Records(state) :
       /\ s.tag # "Both"
       /\ exists(hist.fs0, s.x)
       /\ exists(hist.fs0, Counterpart(s))

\* The scan-and-tick cycle on its own: no external change, no key pressed, no
\* I/O failure; the host loop keeps scanning and ticking.
LiveInitFs ==
  InitFs \cup
    {[f EXCEPT ![join(backup_dir, "Saved3.broguesave")] = File("backup", 0)] : f \in InitFs}

InitLive ==
  /\ fs \in LiveInitFs
  /\ extLeft = 0
  /\ InitApp

OnTickOk == \E r \in reconcile(fs, state, delete_state) : r.ok /\ Tick(r)

NextLive ==
  \/ UpdateState
  \/ OnTickOk

SpecLive ==
  InitLive /\ [][NextLive]_vars /\ WF_vars(UpdateState) /\ WF_vars(OnTickOk)

Converged ==
  /\ {n \in Names : Qualifies(fs, Origin(n))} = {n \in Names : Qualifies(fs, Backup(n))}
  /\ state \in get_state(fs)
  /\ \A s \in Records(state) : s.tag = "Both"

\* a save on one side faces a directory of its name on the other
Blocked ==
  \E n \in Names :
    \/ Qualifies(fs, Origin(n)) /\ is_dir(fs, Backup(n))
    \/ Qualifies(fs, Backup(n)) /\ is_dir(fs, Origin(n))

\* C17 (as claimed): the cycle reaches, and stays in, a state where both
\* directories hold the same save names and every record is Both.
EventuallyConverges == <>[]Converged

\* C17 (amended): the same, unless a directory holds the name of a one-sided
\* save on the other side; and once converged no step changes the filesystem.
ConvergesUnlessBlocked ==
  /\ <>[](Blocked \/ Converged)
  /\ [][Converged => fs' = fs]_vars

ConvergedWitness ==
  /\ hist.op = "scan" /\ Converged /\ ~Blocked
  /\ Len(state) = 2
  /\ \E p \in Paths : fs[p].kind = "file" /\ fs[p].content # SideContent(p.dir)
  /\ \E p \in Paths : fs[p].kind = "file" /\ fs[p].content = "origin" /\ p.dir = backup_dir
  /\ \E p \in Paths : fs[p].kind = "file" /\ fs[p].content = "backup" /\ p.dir = save_dir

\* C18 (as claimed): a scan right after a scan of the same directories returns
\* the same records in the same order.
RescanSameOrder ==
  (hist.op = "scan" /\ hist.ok /\ hist.again) => state = hist.state0

\* C19 (as claimed): with no external change at all, after a delete tick for
\* the record of a name no file of that name is in either directory.
DeletedNameIsGone ==
  (DeleteTick /\ hist.ok /\ extLeft = MaxExternal) =>
    /\ ~exists(fs, Origin(Save_key(Selected)))
    /\ ~exists(fs, Backup(Save_key(Selected)))

\* C20: the synchronization branch removes nothing, changes no entry that was
\* there and adds only files named as a one-sided record of the state; the
\* deletion branch adds nothing and changes only the selected record's paths;
\* a tick leaves NotDeleting and AwaitingIndex as they were.
FrameHolds ==
  /\ SyncTick =>
       /\ hist.removed = {}
       /\ \A p \in Paths : exists(hist.fs0, p) => fs[p] = hist.fs0[p]
       /\ \A p \in Paths :
            (~exists(hist.fs0, p) /\ exists(fs, p)) =>
              \E s \in Records(state) : s.tag # "Both" /\ p = Counterpart(s)
  /\ DeleteTick =>
       /\ \A p \in Paths : p \notin {Selected.x, Selected.y} => fs[p] = hist.fs0[p]
       /\ \A p \in Paths : exists(fs, p) => fs[p] = hist.fs0[p]
       /\ \A p \in Paths : p.name # Save_key(Selected) => fs[p] = hist.fs0[p]
  /\ (Ticked /\ hist.ds0.tag \in {"NotDeleting", "AwaitingIndex"}) =>
       delete_state = hist.ds0

FrameWitness ==
  /\ SyncTick /\ hist.ok
  /\ hist.ds0 = AwaitingIndex
  /\ hist.copies # {}
  /\ Len(state) = 2
  /\ \E s \in Records(state) : s.tag = "Both"

====
